---- MODULE Spec2Model ----
(***************************************************************************)
(* A model of replybox's two utilities: the Logger (src/src/lib/logger.ts) *)
(* and the environment accessor (src/src/lib/env.ts), and of the           *)
(* application that uses them (src/src/index.ts).                          *)
(*                                                                         *)
(* Text is modelled character by character: a JavaScript string is a       *)
(* sequence of one-character strings, so that "contains", "upper-cased"    *)
(* and "unchanged" are statements about the characters written.  An ANSI   *)
(* escape sequence of the chalk styles counts as one character.            *)
(* One console.log call writes one entry of stdout (one line: no message   *)
(* of the model holds a line break).                                       *)
(***************************************************************************)
EXTENDS Integers, Sequences, FiniteSets, TLC

VARIABLES
    locale,      \* Logger.locale, the private static field
    env,         \* process.env restricted to Keys: key -> value or undefined
    stdout,      \* the lines console.log has written, oldest first
    hostLocale,  \* the runtime's default locale, fixed when the process starts
    chalkLevel,  \* chalk's detected colour support, fixed when the process starts
    call,        \* the last call made on the two modules, with what it saw
    ret,         \* how that call ended: the value returned, or an exception
    lastSetLocale,  \* history: the argument of the latest setLocale call, if any
    lastNodeEnv,    \* history: the latest mode passed to setOrGetNodeEnv, if any
    pc,          \* index.ts: the statement the module's top level is at ("off": not loaded)
    boot,        \* index.ts: the consts nodeEnv, port, apiKey, and the keys read so far
    server,      \* index.ts: the state of the HTTP server app.listen creates
    requests,    \* index.ts: each HTTP request's route, handler position and response
    provider     \* the API wrapper calls made so far, oldest first

\* the variables of the application
appVars == <<pc, boot, server, requests, provider>>

vars == <<locale, env, stdout, hostLocale, chalkLevel, call, ret, lastSetLocale, lastNodeEnv,
          pc, boot, server, requests, provider>>

----------------------------------------------------------------------------
(* Bounds *)

\* console.log calls a run may make
MaxLines == 1

----------------------------------------------------------------------------
(* JavaScript values *)

\* a defined string value
Str(s) == [def |-> TRUE, s |-> s]

\* the value undefined
Undefined == [def |-> FALSE, s |-> <<>>]

\* !v for a value that is a string or undefined
Falsy(v) == ~v.def \/ v.s = <<>>

\* a ?? b
Coalesce(a, b) == IF a.def THEN a ELSE b

Last(seq) == seq[Len(seq)]

\* whether sub occurs in s as a run of consecutive characters
Contains(s, sub) ==
    \E i \in 0..(Len(s) - Len(sub)) : SubSeq(s, i + 1, i + Len(sub)) = sub

LowerCase == <<"a","b","c","d","e","f","g","h","i","j","k","l","m","n","o","p","q","r","s","t","u","v","w","x","y","z">>
UpperCase == <<"A","B","C","D","E","F","G","H","I","J","K","L","M","N","O","P","Q","R","S","T","U","V","W","X","Y","Z">>
Digit == <<"0","1","2","3","4","5","6","7","8","9">>

Range(seq) == {seq[i] : i \in 1..Len(seq)}

LowerLetters == Range(LowerCase)
Letters == Range(LowerCase) \cup Range(UpperCase)
Alphanumerics == Letters \cup Range(Digit)

\* String.prototype.toUpperCase on one character, then on a string
UpperOf == [c \in LowerLetters |-> UpperCase[CHOOSE i \in 1..Len(LowerCase) : LowerCase[i] = c]]

UpperChar(c) == IF c \in LowerLetters THEN UpperOf[c] ELSE c

ToUpperCase(s) == [i \in 1..Len(s) |-> UpperChar(s[i])]

\* the decimal digits of a natural number
RECURSIVE Decimal(_)
Decimal(n) == IF n < 10 THEN <<Digit[n + 1]>> ELSE Decimal(n \div 10) \o <<Digit[(n % 10) + 1]>>

\* two digits at least ("2-digit" fields of a date format)
Pad2(n) == IF n < 10 THEN <<"0">> \o Decimal(n) ELSE Decimal(n)

----------------------------------------------------------------------------
(* Locales and Date.prototype.toLocale{Date,Time}String *)

enUS == <<"e","n","-","U","S">>
deDE == <<"d","e","-","D","E">>
\* a well-formed tag of a language the runtime has no data for
xxXX == <<"x","x","-","X","X">>
\* not a language tag: an underscore where BCP 47 wants a hyphen
en_US == <<"e","n","_","U","S">>

\* the locales the runtime has data for
SupportedLocales == {enUS, deDE}

\* the strings a caller passes to setLocale
LocaleArgs == {enUS, deDE, xxXX, en_US}

IsAlpha(c) == c \in Letters
IsAlnum(c) == c \in Alphanumerics

\* the subtags of a tag: the runs between hyphens
RECURSIVE Subtags(_)
Subtags(s) ==
    IF \A i \in 1..Len(s) : s[i] # "-"
    THEN <<s>>
    ELSE LET k == CHOOSE i \in 1..Len(s) :
                      s[i] = "-" /\ \A j \in 1..(i - 1) : s[j] # "-"
         IN  <<SubSeq(s, 1, k - 1)>> \o Subtags(SubSeq(s, k + 1, Len(s)))

\* IsStructurallyValidLanguageTag: a language subtag of 2-3 or 5-8 letters,
\* then subtags of 1-8 letters and digits
IsStructurallyValidLanguageTag(s) ==
    LET tags == Subtags(s)
    IN  /\ Len(tags[1]) \in {2, 3, 5, 6, 7, 8}
        /\ \A i \in 1..Len(tags[1]) : IsAlpha(tags[1][i])
        /\ \A t \in 2..Len(tags) :
              /\ Len(tags[t]) \in 1..8
              /\ \A i \in 1..Len(tags[t]) : IsAlnum(tags[t][i])

\* the hosts a process runs on: a colour terminal whose default locale is
\* en-US, and a pipe (chalk detects no colour support) whose default is de-DE
Hosts == {[locale |-> enUS, colour |-> 1], [locale |-> deDE, colour |-> 0]}

\* the locale a request for loc resolves to: itself when supported, else the
\* runtime's default
ResolveLocale(loc, host) == IF loc \in SupportedLocales THEN loc ELSE host

\* a Date: its local-time fields, or the invalid Date (time value NaN)
MkDate(y, mo, d, h, mi, s) ==
    [valid |-> TRUE, year |-> y, month |-> mo, day |-> d,
     hour |-> h, minute |-> mi, second |-> s]

InvalidDate ==
    [valid |-> FALSE, year |-> 0, month |-> 0, day |-> 0,
     hour |-> 0, minute |-> 0, second |-> 0]

\* 2025-11-16T17:50:22, the timestamp of the documentation's examples
DocDate == MkDate(2025, 11, 16, 17, 50, 22)

\* the dates a caller passes; the clock (new Date()) gives valid ones only
Dates == {DocDate, InvalidDate}
ClockDates == {DocDate}

InvalidDateText == <<"I","n","v","a","l","i","d"," ","D","a","t","e">>

\* the date in the conventions of a supported locale
DateIn(date, loc) ==
    IF loc = enUS
    THEN Decimal(date.month) \o <<"/">> \o Decimal(date.day) \o <<"/">> \o Decimal(date.year)
    ELSE Decimal(date.day) \o <<".">> \o Decimal(date.month) \o <<".">> \o Decimal(date.year)

\* the time of day in the conventions of a supported locale
TimeIn(date, loc) ==
    IF loc = enUS
    THEN Decimal(((date.hour + 11) % 12) + 1) \o <<":">> \o Pad2(date.minute)
            \o <<":">> \o Pad2(date.second) \o <<" ">>
            \o (IF date.hour < 12 THEN <<"A","M">> ELSE <<"P","M">>)
    ELSE Pad2(date.hour) \o <<":">> \o Pad2(date.minute) \o <<":">> \o Pad2(date.second)

\* date.toLocaleDateString(loc) and date.toLocaleTimeString(loc): an invalid
\* Date gives "Invalid Date" before the locale is looked at; otherwise a tag
\* that is not well formed raises RangeError
LocaleThrows(date, loc) == date.valid /\ ~IsStructurallyValidLanguageTag(loc)

ToLocaleDateString(date, loc, host) ==
    IF ~date.valid THEN InvalidDateText ELSE DateIn(date, ResolveLocale(loc, host))

ToLocaleTimeString(date, loc, host) ==
    IF ~date.valid THEN InvalidDateText ELSE TimeIn(date, ResolveLocale(loc, host))

----------------------------------------------------------------------------
(* logger.ts *)

fatalLevel == <<"f","a","t","a","l">>
errorLevel == <<"e","r","r","o","r">>
warningLevel == <<"w","a","r","n","i","n","g">>
debugLevel == <<"d","e","b","u","g">>
informationLevel == <<"i","n","f","o","r","m","a","t","i","o","n">>

\* type LogLevel
LogLevel == {fatalLevel, errorLevel, warningLevel, debugLevel, informationLevel}

\* a chalk style: the escape sequences that open and close it
Style(open, close) == [open |-> open, close |-> close]

\* const levels: the style of each severity
levels ==
    [l \in LogLevel |->
        IF l = fatalLevel THEN Style(<<"ESC[41m", "ESC[37m">>, <<"ESC[39m", "ESC[49m">>)
        ELSE IF l = errorLevel THEN Style(<<"ESC[31m">>, <<"ESC[39m">>)
        ELSE IF l = warningLevel THEN Style(<<"ESC[33m">>, <<"ESC[39m">>)
        ELSE IF l = debugLevel THEN Style(<<"ESC[34m">>, <<"ESC[39m">>)
        ELSE Style(<<"ESC[32m">>, <<"ESC[39m">>)]

\* a chalk style applied to its arguments: they are joined by single spaces
\* and, when colour is supported and the text is not empty, wrapped
Chalk(style, level, first, second) ==
    LET text == first \o <<" ">> \o second
    IN  IF level = 0 \/ text = <<>> THEN text ELSE style.open \o text \o style.close

\* the argument of console.log in Logger.log
LogLine(message, level, date, loc, host, colour) ==
    LET logLevel == levels[level]
        localeDate == ToLocaleDateString(date, loc, host)
        time == ToLocaleTimeString(date, loc, host)
    IN  Chalk(logLevel, colour,
              <<"[">> \o ToUpperCase(level) \o <<"]", " ", "(">> \o localeDate
                  \o <<" ", "-", " ">> \o time \o <<")", ":">>,
              message)

Return(v) == [kind |-> "return", val |-> v]
Throw(name) == [kind |-> "throw", val |-> Str(name)]
RangeError == <<"R","a","n","g","e","E","r","r","o","r">>

\* what a caller passes as message
Messages == {<<"O","k","!">>}

NoDate == InvalidDate

\* the record of a call: its operation and arguments (level is filled in by a
\* direct call of Logger.log only), the number of lines on
\* stdout and the value of NODE_ENV when it was made, and, for the two
\* setters, whether the call before it was the same call with the same argument
MkCall(op, loc, msg, date, key, arg) ==
    [op |-> op, loc |-> loc, msg |-> msg, date |-> date, key |-> key, arg |-> arg,
     level |-> <<>>,
     outBefore |-> Len(stdout),
     nodeEnvBefore |-> env[<<"N","O","D","E","_","E","N","V">>],
     repeat |-> /\ op \in {"setLocale", "setOrGetNodeEnv"}
                /\ call.op = op /\ call.loc = loc /\ call.arg = arg]

\* Logger.log raises when formatting the timestamp does
LogThrows(date) == LocaleThrows(date, locale)

\* strings that are no LogLevel: a word that is no property of the levels
\* object at all, and the name of a method it inherits from Object.prototype
traceLevel == <<"t","r","a","c","e">>
toStringName == <<"t","o","S","t","r","i","n","g">>

\* what levels[level] evaluates to: the style of an own key, the inherited
\* Object.prototype.toString, or undefined
LevelsLookup(level) ==
    IF level \in LogLevel THEN "style"
    ELSE IF level = toStringName THEN "Object.prototype.toString"
    ELSE "undefined"

TypeError == <<"T","y","p","e","E","r","r","o","r">>

\* Logger.log raises when formatting the timestamp does, and then when
\* logLevel is undefined and is called
LogRaises(level, date) == LogThrows(date) \/ LevelsLookup(level) = "undefined"

\* Object.prototype.toString called as a plain function (this is undefined)
ObjectUndefinedText ==
    <<"[","o","b","j","e","c","t"," ","U","n","d","e","f","i","n","e","d","]">>

\* the argument of console.log: logLevel(...) for whatever logLevel is
ConsoleArg(message, level, date) ==
    IF LevelsLookup(level) = "style"
    THEN LogLine(message, level, date, locale, hostLocale, chalkLevel)
    ELSE ObjectUndefinedText

\* private static log(message, level, date)
log(message, level, date) ==
    /\ LogRaises(level, date) \/ Len(stdout) < MaxLines \/ pc # "off"
    /\ stdout' = IF LogRaises(level, date)
                 THEN stdout
                 ELSE Append(stdout, ConsoleArg(message, level, date))
    /\ UNCHANGED locale

\* the outcome of a public method, which returns nothing
LogOutcome(date) == IF LogThrows(date) THEN Throw(RangeError) ELSE Return(Undefined)

\* setLocale with the assignment lost (locale = locale: the parameter shadows
\* the field)
setLocaleShadowed(l) ==
    /\ locale' = locale
    /\ lastSetLocale' = Str(l)
    /\ call' = MkCall("setLocale", l, <<>>, NoDate, <<>>, Undefined)
    /\ ret' = Return(Undefined)
    /\ UNCHANGED <<env, stdout, hostLocale, chalkLevel, lastNodeEnv>>

\* setLocale that falls back to the default when given the locale already set
setLocaleToggles(l) ==
    /\ locale' = IF locale = l THEN enUS ELSE l
    /\ lastSetLocale' = Str(l)
    /\ call' = MkCall("setLocale", l, <<>>, NoDate, <<>>, Undefined)
    /\ ret' = Return(Undefined)
    /\ UNCHANGED <<env, stdout, hostLocale, chalkLevel, lastNodeEnv>>

\* public static setLocale(locale)
setLocale(l) ==
    /\ locale' = l
    /\ lastSetLocale' = Str(l)
    /\ call' = MkCall("setLocale", l, <<>>, NoDate, <<>>, Undefined)
    /\ ret' = Return(Undefined)
    /\ UNCHANGED <<env, stdout, hostLocale, chalkLevel, lastNodeEnv>>

\* what a public severity method leaves alone
MethodUnchanged == UNCHANGED <<env, hostLocale, chalkLevel, lastSetLocale, lastNodeEnv>>

\* public static fatal(message, date)
fatal(message, date) ==
    /\ log(message, fatalLevel, date)
    /\ call' = MkCall("fatal", <<>>, message, date, <<>>, Undefined)
    /\ ret' = LogOutcome(date)
    /\ MethodUnchanged

\* public static error(message, date)
error(message, date) ==
    /\ log(message, errorLevel, date)
    /\ call' = MkCall("error", <<>>, message, date, <<>>, Undefined)
    /\ ret' = LogOutcome(date)
    /\ MethodUnchanged

\* public static warning(message, date)
warning(message, date) ==
    /\ log(message, warningLevel, date)
    /\ call' = MkCall("warning", <<>>, message, date, <<>>, Undefined)
    /\ ret' = LogOutcome(date)
    /\ MethodUnchanged

\* public static debug(message, date)
debug(message, date) ==
    /\ log(message, debugLevel, date)
    /\ call' = MkCall("debug", <<>>, message, date, <<>>, Undefined)
    /\ ret' = LogOutcome(date)
    /\ MethodUnchanged

\* info as a copy of debug that kept debug's level
infoAtDebug(message, date) ==
    /\ log(message, debugLevel, date)
    /\ call' = MkCall("info", <<>>, message, date, <<>>, Undefined)
    /\ ret' = LogOutcome(date)
    /\ MethodUnchanged

\* public static info(message, date)
info(message, date) ==
    /\ log(message, informationLevel, date)
    /\ call' = MkCall("info", <<>>, message, date, <<>>, Undefined)
    /\ ret' = LogOutcome(date)
    /\ MethodUnchanged

\* the levels a caller that gets past the type checker passes to Logger.log
AnyLevels == LogLevel \cup {traceLevel, toStringName}

\* Logger.log called directly (private: from JavaScript, or through a cast)
logCall(message, level, date) ==
    /\ log(message, level, date)
    /\ call' = [MkCall("log", <<>>, message, date, <<>>, Undefined) EXCEPT !.level = level]
    /\ ret' = IF LogThrows(date) THEN Throw(RangeError)
              ELSE IF LogRaises(level, date) THEN Throw(TypeError)
              ELSE Return(Undefined)
    /\ MethodUnchanged

\* the level each public method logs at
MethodLevel ==
    [op \in {"fatal", "error", "warning", "debug", "info"} |->
        IF op = "fatal" THEN fatalLevel
        ELSE IF op = "error" THEN errorLevel
        ELSE IF op = "warning" THEN warningLevel
        ELSE IF op = "debug" THEN debugLevel
        ELSE informationLevel]

----------------------------------------------------------------------------
(* env.ts *)

NODE_ENV == <<"N","O","D","E","_","E","N","V">>
EXPRESS_PORT == <<"E","X","P","R","E","S","S","_","P","O","R","T">>
OPENAI_API_KEY == <<"O","P","E","N","A","I","_","A","P","I","_","K","E","Y">>

\* the keys of process.env the model follows
Keys == {NODE_ENV, EXPRESS_PORT, OPENAI_API_KEY}

development == <<"d","e","v","e","l","o","p","m","e","n","t">>
testing == <<"t","e","s","t","i","n","g">>
production == <<"p","r","o","d","u","c","t","i","o","n">>
staging == <<"s","t","a","g","i","n","g">>

\* type NodeEnv
NodeEnv == {development, testing, production}

\* the environments a process starts in, the .env file loaded: NODE_ENV is
\* unset, empty or a word that is no mode (a start with NODE_ENV a mode is the
\* state after setOrGetNodeEnv(mode)); the port is set, the API key is not
InitialEnvs ==
    {[k \in Keys |->
        IF k = NODE_ENV THEN n
        ELSE IF k = EXPRESS_PORT THEN Str(<<"3","0","0","0">>)
        ELSE Undefined] :
        n \in {Undefined, Str(<<>>), Str(staging)}}

\* the default mistaken: nodeEnv ?? process.env["NODE_ENV"] ?? "production"
ResolveNodeEnvProduction(nodeEnv, current) ==
    Coalesce(nodeEnv, Coalesce(current, Str(production)))

\* the operands swapped: process.env["NODE_ENV"] ?? nodeEnv ?? "development"
ResolveNodeEnvKeepsCurrent(nodeEnv, current) ==
    Coalesce(current, Coalesce(nodeEnv, Str(development)))

\* nodeEnv ?? process.env["NODE_ENV"] ?? "development"
ResolveNodeEnv(nodeEnv, current) == Coalesce(nodeEnv, Coalesce(current, Str(development)))

\* setOrGetNodeEnv returning the value it replaced
setOrGetNodeEnvReturnsOld(nodeEnv) ==
    /\ env' = [env EXCEPT ![NODE_ENV] = ResolveNodeEnv(nodeEnv, env[NODE_ENV])]
    /\ ret' = Return(env[NODE_ENV])
    /\ call' = MkCall("setOrGetNodeEnv", <<>>, <<>>, NoDate, <<>>, nodeEnv)
    /\ lastNodeEnv' = IF nodeEnv.def THEN nodeEnv ELSE lastNodeEnv
    /\ UNCHANGED <<locale, stdout, hostLocale, chalkLevel, lastSetLocale>>

\* setOrGetNodeEnv(nodeEnv?)
setOrGetNodeEnv(nodeEnv) ==
    /\ env' = [env EXCEPT ![NODE_ENV] = ResolveNodeEnv(nodeEnv, env[NODE_ENV])]
    /\ ret' = Return(env'[NODE_ENV])
    /\ call' = MkCall("setOrGetNodeEnv", <<>>, <<>>, NoDate, <<>>, nodeEnv)
    /\ lastNodeEnv' = IF nodeEnv.def THEN nodeEnv ELSE lastNodeEnv
    /\ UNCHANGED <<locale, stdout, hostLocale, chalkLevel, lastSetLocale>>

\* the message getEnv logs for a key
MissingKeyMessage(key) ==
    <<"T","h","e"," ","k","e","y"," ","'">> \o key \o
    <<"'"," ","d","o","e","s"," ","n","o","t"," ","e","x","i","s","t","!"," ","C","h","e","c","k"," ","t","h","e"," ","'","*",".","e","n","v","'"," ","p","a","t","h"," ","o","r"," ","k","e","y"," ","n","a","m","e"," ","a","n","d"," ","e","n","s","u","r","e"," ","i","t"," ","h","a","s"," ","t","h","e"," ","c","o","r","r","e","c","t"," ","s","p","e","l","l","n","g",".">>

\* getEnv(env): now is the clock's reading when Logger.error takes its
\* default timestamp
getEnv(key, now) ==
    LET variable == env[key]
    IN  /\ IF Falsy(variable)
           THEN /\ log(MissingKeyMessage(key), errorLevel, now)
                /\ ret' = IF LogThrows(now) THEN Throw(RangeError) ELSE Return(Undefined)
           ELSE /\ ret' = Return(variable)
                /\ UNCHANGED <<locale, stdout>>
        /\ call' = MkCall("getEnv", <<>>, <<>>, now, key, Undefined)
        /\ UNCHANGED <<env, hostLocale, chalkLevel, lastSetLocale, lastNodeEnv>>

----------------------------------------------------------------------------
(* index.ts: the application *)

MaxRequests == 2

\* the HTTP requests the model follows
RequestIds == 1..MaxRequests

\* the content endpoints and the OpenAIHelper method each handler calls
WrapperOf ==
    [route \in {"/joker", "/fact", "/advice", "/motivator", "/quoteSomeone"} |->
        IF route = "/joker" THEN "createAJoke"
        ELSE IF route = "/fact" THEN "findAFact"
        ELSE IF route = "/advice" THEN "sendSomeRandomAdvice"
        ELSE IF route = "/motivator" THEN "movingMotivation"
        ELSE "quoter"]

ContentRoutes == DOMAIN WrapperOf

\* the body of GET /
HelloWorld == "Hello, world!"

\* the texts the provider answers with
Texts == {"text A", "text B"}

\* a request that has not arrived; a handler awaits at most one wrapper call,
\* the entry of provider at index awaiting (0: none)
NoRequest == [route |-> "", state |-> "none", awaiting |-> 0, status |-> 0, body |-> ""]

NoBoot == [nodeEnv |-> Undefined, port |-> Undefined, apiKey |-> Undefined, reads |-> <<>>]

\* the state of the application while index.ts is not loaded
AppOff ==
    /\ pc = "off"
    /\ boot = NoBoot
    /\ server = "none"
    /\ requests = [r \in RequestIds |-> NoRequest]
    /\ provider = <<>>

\* ${value} in a template literal
TemplateText(v) == IF v.def THEN v.s ELSE <<"u","n","d","e","f","i","n","e","d">>

\* `Application is in ${nodeEnv} listening on ${port}.`
StartupMessage(nodeEnv, port) ==
    <<"A","p","p","l","i","c","a","t","i","o","n"," ","i","s"," ","i","n"," ">>
        \o TemplateText(nodeEnv)
        \o <<" ","l","i","s","t","e","n","i","n","g"," ","o","n"," ">>
        \o TemplateText(port) \o <<".">>

\* const nodeEnv = setOrGetNodeEnv();
InitNodeEnv ==
    /\ pc = "nodeEnv"
    /\ setOrGetNodeEnv(Undefined)
    /\ boot' = [boot EXCEPT !.nodeEnv = ret'.val, !.reads = Append(@, NODE_ENV)]
    /\ pc' = "port"
    /\ UNCHANGED <<server, requests, provider>>

\* const port = getEnv("EXPRESS_PORT");  an exception at the top level of the
\* module ends the process
InitPort(now) ==
    /\ pc = "port"
    /\ getEnv(EXPRESS_PORT, now)
    /\ boot' = [boot EXCEPT !.port = IF ret'.kind = "return" THEN ret'.val ELSE Undefined,
                            !.reads = Append(@, EXPRESS_PORT)]
    /\ pc' = IF ret'.kind = "return" THEN "apiKey" ELSE "crashed"
    /\ UNCHANGED <<server, requests, provider>>

\* const apiKey = getEnv("OPENAI_API_KEY");
InitApiKey(now) ==
    /\ pc = "apiKey"
    /\ getEnv(OPENAI_API_KEY, now)
    /\ boot' = [boot EXCEPT !.apiKey = IF ret'.kind = "return" THEN ret'.val ELSE Undefined,
                            !.reads = Append(@, OPENAI_API_KEY)]
    /\ pc' = IF ret'.kind = "return" THEN "openAI" ELSE "crashed"
    /\ UNCHANGED <<server, requests, provider>>

\* const openAI = new OpenAIHelper(apiKey);  the class is not among the
\* sources: its documentation says that without a key it throws a fatal
\* error, which at the top level ends the process; both that and a
\* constructor that goes on are allowed here
NewOpenAIHelper(throws) ==
    /\ pc = "openAI"
    /\ throws => ~boot.apiKey.def
    /\ pc' = IF throws THEN "crashed" ELSE "listen"
    /\ UNCHANGED <<locale, env, stdout, hostLocale, chalkLevel, call, ret,
                   lastSetLocale, lastNodeEnv, boot, server, requests, provider>>

\* app.listen(port, callback): the server starts to bind, and the module's
\* top level is done
Listen ==
    /\ pc = "listen"
    /\ server = "none"
    /\ server' = "binding"
    /\ pc' = "loaded"
    /\ UNCHANGED <<locale, env, stdout, hostLocale, chalkLevel, call, ret,
                   lastSetLocale, lastNodeEnv, boot, requests, provider>>

\* the callback of app.listen
ListenCallback(now) == info(StartupMessage(boot.nodeEnv, boot.port), now)

\* the server is bound to the port and emits 'listening': the callback runs
Listening(now) ==
    /\ server = "binding"
    /\ server' = "listening"
    /\ ListenCallback(now)
    /\ UNCHANGED <<pc, boot, requests, provider>>

\* binding fails (the port is taken, or not permitted) and the server emits
\* 'error': Express 5's app.listen registers the callback for that event as
\* well, so the callback runs, with the error as its argument
ListenError(now) ==
    /\ server = "binding"
    /\ server' = "failed"
    /\ ListenCallback(now)
    /\ UNCHANGED <<pc, boot, requests, provider>>

\* the next request to arrive
NextRequest(r) ==
    /\ server = "listening"
    /\ requests[r].state = "none"
    /\ \A q \in RequestIds : q < r => requests[q].state # "none"

LibraryUnchanged ==
    UNCHANGED <<locale, env, stdout, hostLocale, chalkLevel, call, ret,
                lastSetLocale, lastNodeEnv>>

\* app.get("/", (_req, res) => { res.send("Hello, world!"); })
GetRoot(r) ==
    /\ NextRequest(r)
    /\ requests' = [requests EXCEPT ![r] =
                       [route |-> "/", state |-> "done", awaiting |-> 0,
                        status |-> 200, body |-> HelloWorld]]
    /\ UNCHANGED <<pc, boot, server, provider>>
    /\ LibraryUnchanged

\* an async handler up to its await: const x = await openAI.<method>()
GetContent(r, route) ==
    /\ NextRequest(r)
    /\ provider' = Append(provider, [req |-> r, op |-> WrapperOf[route],
                                     state |-> "pending", text |-> ""])
    /\ requests' = [requests EXCEPT ![r] =
                       [route |-> route, state |-> "awaiting",
                        awaiting |-> Len(provider) + 1, status |-> 0, body |-> ""]]
    /\ UNCHANGED <<pc, boot, server>>
    /\ LibraryUnchanged

\* the promise of a wrapper call is fulfilled with the provider's text
ProviderReturns(k, text) ==
    /\ k \in DOMAIN provider
    /\ provider[k].state = "pending"
    /\ provider' = [provider EXCEPT ![k].state = "returned", ![k].text = text]
    /\ UNCHANGED <<pc, boot, server, requests>>
    /\ LibraryUnchanged

\* the promise of a wrapper call is rejected: the provider call failed
ProviderFails(k) ==
    /\ k \in DOMAIN provider
    /\ provider[k].state = "pending"
    /\ provider' = [provider EXCEPT ![k].state = "failed"]
    /\ UNCHANGED <<pc, boot, server, requests>>
    /\ LibraryUnchanged

\* a handler that answers with the text of the latest wrapper call to return
HandlerResumesLatestText(r) ==
    /\ requests[r].state = "awaiting"
    /\ provider[requests[r].awaiting].state # "pending"
    /\ LET returned == {k \in DOMAIN provider : provider[k].state = "returned"}
           latest == CHOOSE k \in returned : \A j \in returned : j <= k
       IN  requests' = [requests EXCEPT ![r] =
                           IF provider[requests[r].awaiting].state = "returned"
                           THEN [@ EXCEPT !.state = "done", !.status = 200,
                                          !.body = provider[latest].text]
                           ELSE [@ EXCEPT !.state = "rejected"]]
    /\ UNCHANGED <<pc, boot, server, provider>>
    /\ LibraryUnchanged

\* an async handler after its await: res.send(x) with the value awaited; when
\* the awaited promise is rejected the await throws and the handler's own
\* promise is rejected
HandlerResumes(r) ==
    /\ requests[r].state = "awaiting"
    /\ provider[requests[r].awaiting].state # "pending"
    /\ requests' = [requests EXCEPT ![r] =
                       IF provider[requests[r].awaiting].state = "returned"
                       THEN [@ EXCEPT !.state = "done", !.status = 200,
                                      !.body = provider[requests[r].awaiting].text]
                       ELSE [@ EXCEPT !.state = "rejected"]]
    /\ UNCHANGED <<pc, boot, server, provider>>
    /\ LibraryUnchanged

\* a router that does not look at what a handler returns (Express 4): the
\* rejection is reported nowhere and the request stays unanswered
ErrorResponseExpress4(r) ==
    /\ requests[r].state = "rejected"
    /\ requests' = [requests EXCEPT ![r].state = "abandoned"]
    /\ UNCHANGED <<pc, boot, server, provider>>
    /\ LibraryUnchanged

\* Express 5's router passes the rejection of a handler's promise to next(),
\* and with no error middleware registered the default handler answers 500
ErrorResponse(r) ==
    /\ requests[r].state = "rejected"
    /\ requests' = [requests EXCEPT ![r].state = "done", ![r].status = 500]
    /\ UNCHANGED <<pc, boot, server, provider>>
    /\ LibraryUnchanged

----------------------------------------------------------------------------
(* The process: any caller, any order of calls *)

Init ==
    /\ locale = enUS
    /\ env \in InitialEnvs
    /\ stdout = <<>>
    /\ \E h \in Hosts : hostLocale = h.locale /\ chalkLevel = h.colour
    /\ call = [op |-> "start", loc |-> <<>>, msg |-> <<>>, date |-> NoDate, key |-> <<>>,
               arg |-> Undefined, level |-> <<>>, outBefore |-> 0,
               nodeEnvBefore |-> Undefined,
               repeat |-> FALSE]
    /\ ret = Return(Undefined)
    /\ lastSetLocale = Undefined
    /\ lastNodeEnv = Undefined
    /\ AppOff

Next ==
    \/ \E l \in LocaleArgs : setLocale(l) /\ UNCHANGED appVars
    \/ \E m \in Messages, d \in Dates : fatal(m, d) /\ UNCHANGED appVars
    \/ \E m \in Messages, d \in Dates : error(m, d) /\ UNCHANGED appVars
    \/ \E m \in Messages, d \in Dates : warning(m, d) /\ UNCHANGED appVars
    \/ \E m \in Messages, d \in Dates : debug(m, d) /\ UNCHANGED appVars
    \/ \E m \in Messages, d \in Dates : info(m, d) /\ UNCHANGED appVars
    \/ \E k \in Keys, now \in ClockDates : getEnv(k, now) /\ UNCHANGED appVars
    \/ \E n \in {Undefined} \cup {Str(m) : m \in NodeEnv} : setOrGetNodeEnv(n) /\ UNCHANGED appVars

Spec == Init /\ [][Next]_vars

\* the same process with callers that reach the private Logger.log
NextInternal ==
    \/ Next
    \/ \E m \in Messages, l \in AnyLevels, d \in Dates :
          logCall(m, l, d) /\ UNCHANGED appVars

SpecInternal == Init /\ [][NextInternal]_vars

----------------------------------------------------------------------------
(* The process running index.ts *)

apiKeyValue == <<"s","k">>

portValue == <<"3","0","0","0">>

AppEnv(n, p, a) ==
    [k \in Keys |-> IF k = NODE_ENV THEN n ELSE IF k = EXPRESS_PORT THEN p ELSE a]

\* the environments and hosts the application starts in: each of the two
\* keys present or missing
AppStarts ==
    {[env |-> AppEnv(Str(production), Str(portValue), Str(apiKeyValue)),
      host |-> [locale |-> enUS, colour |-> 1]],
     [env |-> AppEnv(Undefined, Undefined, Str(apiKeyValue)),
      host |-> [locale |-> deDE, colour |-> 0]],
     [env |-> AppEnv(Str(production), Str(portValue), Undefined),
      host |-> [locale |-> deDE, colour |-> 0]],
     [env |-> AppEnv(Undefined, Str(<<>>), Undefined),
      host |-> [locale |-> enUS, colour |-> 1]]}

InitApp ==
    /\ locale = enUS
    /\ stdout = <<>>
    /\ \E a \in AppStarts :
          env = a.env /\ hostLocale = a.host.locale /\ chalkLevel = a.host.colour
    /\ call = [op |-> "start", loc |-> <<>>, msg |-> <<>>, date |-> NoDate, key |-> <<>>,
               arg |-> Undefined, level |-> <<>>, outBefore |-> 0,
               nodeEnvBefore |-> Undefined,
               repeat |-> FALSE]
    /\ ret = Return(Undefined)
    /\ lastSetLocale = Undefined
    /\ lastNodeEnv = Undefined
    /\ pc = "nodeEnv"
    /\ boot = NoBoot
    /\ server = "none"
    /\ requests = [r \in RequestIds |-> NoRequest]
    /\ provider = <<>>

NextApp ==
    \/ InitNodeEnv
    \/ \E now \in ClockDates : InitPort(now)
    \/ \E now \in ClockDates : InitApiKey(now)
    \/ \E throws \in BOOLEAN : NewOpenAIHelper(throws)
    \/ Listen
    \/ \E now \in ClockDates : Listening(now)
    \/ \E now \in ClockDates : ListenError(now)
    \/ \E r \in RequestIds : GetRoot(r)
    \/ \E r \in RequestIds, route \in ContentRoutes : GetContent(r, route)
    \/ \E k \in 1..MaxRequests, text \in Texts : ProviderReturns(k, text)
    \/ \E k \in 1..MaxRequests : ProviderFails(k)
    \/ \E r \in RequestIds : HandlerResumes(r)
    \/ \E r \in RequestIds : ErrorResponse(r)

SpecApp == InitApp /\ [][NextApp]_vars

\* the application started with both keys configured
InitConfigured == InitApp /\ ~Falsy(env[EXPRESS_PORT]) /\ ~Falsy(env[OPENAI_API_KEY])

\* Node's event loop runs every continuation and callback that is queued
SpecAppFair ==
    /\ InitConfigured
    /\ [][NextApp]_vars
    /\ WF_vars(\E r \in RequestIds : HandlerResumes(r) \/ ErrorResponse(r))

----------------------------------------------------------------------------
(* Properties *)

\* the last call was one of the five public severity methods
IsLoggerCall == call.op \in DOMAIN MethodLevel

\* the severity names as the log lines are to show them
SeverityName ==
    [op \in DOMAIN MethodLevel |->
        IF op = "fatal" THEN <<"F","A","T","A","L">>
        ELSE IF op = "error" THEN <<"E","R","R","O","R">>
        ELSE IF op = "warning" THEN <<"W","A","R","N","I","N","G">>
        ELSE IF op = "debug" THEN <<"D","E","B","U","G">>
        ELSE <<"I","N","F","O","R","M","A","T","I","O","N">>]

\* the last call wrote exactly one line
WroteOneLine == Len(stdout) = call.outBefore + 1

\* the last call wrote nothing
WroteNothing == Len(stdout) = call.outBefore

\* the locale the setLocale calls so far ask for
RequestedLocale == IF lastSetLocale.def THEN lastSetLocale.s ELSE enUS

\* 16.11.2025, DocDate's day in the German conventions
GermanDocDay == <<"1","6",".","1","1",".","2","0","2","5">>

\* C1: each of the five public Logger methods, for every message and
\* timestamp, writes exactly one line, and the line holds the upper-cased
\* severity name in brackets, the formatted date and time of the timestamp,
\* and the message text unchanged.
C1_OneLinePerCall ==
    IsLoggerCall =>
        /\ WroteOneLine
        /\ Contains(Last(stdout), <<"[">> \o SeverityName[call.op] \o <<"]">>)
        /\ Contains(Last(stdout), ToLocaleDateString(call.date, locale, hostLocale))
        /\ Contains(Last(stdout), ToLocaleTimeString(call.date, locale, hostLocale))
        /\ Contains(Last(stdout), call.msg)

\* What does hold of C1: when the locale set is a well-formed tag, or the
\* timestamp is the invalid Date, the call returns and has written that line.
C1_HoldsUnlessLocaleMalformed ==
    (IsLoggerCall /\ ~LocaleThrows(call.date, locale)) =>
        /\ ret = Return(Undefined)
        /\ WroteOneLine
        /\ Contains(Last(stdout), <<"[">> \o SeverityName[call.op] \o <<"]">>)
        /\ Contains(Last(stdout), ToLocaleDateString(call.date, locale, hostLocale))
        /\ Contains(Last(stdout), ToLocaleTimeString(call.date, locale, hostLocale))
        /\ Contains(Last(stdout), call.msg)

C3_LoggingNeverThrows ==
    IsLoggerCall => (ret.kind = "return" /\ WroteOneLine)

\* C4: getEnv of a key with no value in the environment returns undefined and
\* causes exactly one log line, at error level, whose message holds the key
\* name.
C4_MissingKeyLogsOnce ==
    (call.op = "getEnv" /\ ~env[call.key].def) =>
        /\ ret = Return(Undefined)
        /\ WroteOneLine
        /\ Contains(Last(stdout), <<"[","E","R","R","O","R","]">>)
        /\ Contains(Last(stdout), call.key)

\* C5: getEnv of a key set to a string value v, the empty string included,
\* returns v and writes nothing.
C5_PresentKeyReturned ==
    (call.op = "getEnv" /\ env[call.key].def) =>
        (ret = Return(env[call.key]) /\ WroteNothing)

\* What does hold of C5: a key set to a string that is not empty is returned
\* and nothing is written.
C5_HoldsForNonEmptyValues ==
    (call.op = "getEnv" /\ ~Falsy(env[call.key])) =>
        (ret = Return(env[call.key]) /\ WroteNothing)

\* C6: getEnv never raises for a missing key: in every reachable state, under
\* any locale set, getEnv of an absent key completes and returns undefined.
C6_MissingKeyNeverRaises ==
    (call.op = "getEnv" /\ ~env[call.key].def) => ret = Return(Undefined)

\* C7: when NODE_ENV has no value in the environment, setOrGetNodeEnv() with
\* no argument returns "development".
C7_DefaultsToDevelopment ==
    (call.op = "setOrGetNodeEnv" /\ ~call.arg.def /\ ~call.nodeEnvBefore.def) =>
        ret = Return(Str(development))

C7_Witness ==
    /\ call.op = "setOrGetNodeEnv"
    /\ ~call.arg.def
    /\ ~call.nodeEnvBefore.def
    /\ ret = Return(Str(development))
    /\ env[NODE_ENV] = Str(development)

\* C8: setOrGetNodeEnv(m) returns m, and every later setOrGetNodeEnv() with
\* no argument returns m until the next call with a value, whatever getEnv,
\* setLocale or Logger calls come in between: NODE_ENV keeps the last mode
\* supplied.
C8_ModeSticks ==
    /\ (call.op = "setOrGetNodeEnv" /\ call.arg.def) => ret = Return(call.arg)
    /\ (call.op = "setOrGetNodeEnv" /\ ~call.arg.def /\ lastNodeEnv.def) =>
          ret = Return(lastNodeEnv)
    /\ lastNodeEnv.def => env[NODE_ENV] = lastNodeEnv

\* setOrGetNodeEnv() returns "production", supplied by an earlier call, after
\* a line was logged and with NODE_ENV something else when the process began
C8_Witness ==
    /\ call.op = "setOrGetNodeEnv"
    /\ ~call.arg.def
    /\ ~call.repeat
    /\ lastNodeEnv = Str(production)
    /\ ret = Return(Str(production))
    /\ Len(stdout) = 1

\* C9: setOrGetNodeEnv is idempotent: a call that repeats the call before it
\* (the same argument, or none both times) returns what that call returned
\* and leaves the environment as that call left it.
C9_Idempotent ==
    [][(call'.op = "setOrGetNodeEnv" /\ call'.repeat) => (ret' = ret /\ env' = env)]_vars

\* setOrGetNodeEnv("testing") made twice in a row, and setOrGetNodeEnv() twice
C9_Witness ==
    /\ call.op = "setOrGetNodeEnv"
    /\ call.repeat
    /\ \/ call.arg = Str(testing) /\ ret = Return(Str(testing))
       \/ ~call.arg.def /\ ret = Return(Str(staging))

\* what every log call would write, or that it would throw, in this state
Formatting ==
    [m \in Messages, l \in LogLevel, d \in Dates |->
        IF LocaleThrows(d, locale)
        THEN <<"throws">>
        ELSE LogLine(m, l, d, locale, hostLocale, chalkLevel)]

\* the last call, a severity method, would end the same way and write the
\* same line if it were made again now
SameAgain ==
    IF ret.kind = "throw"
    THEN LocaleThrows(call.date, locale)
    ELSE /\ ~LocaleThrows(call.date, locale)
         /\ Last(stdout) = LogLine(call.msg, MethodLevel[call.op], call.date,
                                   locale, hostLocale, chalkLevel)

SeverityTags == {<<"[">> \o SeverityName[op] \o <<"]">> : op \in DOMAIN MethodLevel}

\* C11: every line the logger emits carries exactly one severity level of the
\* closed set, and Logger.log invoked with a level outside the set raises an
\* error and writes no line.
C11_ClosedLevels ==
    /\ \A i \in 1..Len(stdout) :
          Cardinality({t \in SeverityTags : Contains(stdout[i], t)}) = 1
    /\ (call.op = "log" /\ call.level \notin LogLevel) =>
          (ret.kind = "throw" /\ WroteNothing)

\* What does hold of C11: a level that is no property of the levels object,
\* own or inherited, raises and writes nothing, and the public methods write
\* lines of exactly one level.
C11_HoldsForUnknownKeys ==
    /\ (call.op = "log" /\ LevelsLookup(call.level) = "undefined") =>
          (ret.kind = "throw" /\ WroteNothing)
    /\ (call.op # "log" /\ Len(stdout) > call.outBefore) =>
          Cardinality({t \in SeverityTags : Contains(Last(stdout), t)}) = 1

\* the text starts with, or ends with, the given symbols
StartsWith(text, prefix) ==
    Len(text) >= Len(prefix) /\ SubSeq(text, 1, Len(prefix)) = prefix

EndsWith(text, suffix) ==
    Len(text) >= Len(suffix)
    /\ SubSeq(text, Len(text) - Len(suffix) + 1, Len(text)) = suffix

\* C12: each public method M does exactly what log(message, level(M),
\* timestamp) does, with fatal, error, warning, debug at the level of their
\* name and info at information: where log raises, M raises the same error and
\* writes nothing; otherwise M writes the one line log writes, styled as the
\* severity-to-style table says for that level (with colour on, the line
\* opens and closes with that style's escape codes).
C12_MethodsFunnel ==
    IsLoggerCall =>
        LET level == MethodLevel[call.op]
        IN  IF LogRaises(level, call.date)
            THEN ret = Throw(RangeError) /\ WroteNothing
            ELSE /\ ret = Return(Undefined)
                 /\ WroteOneLine
                 /\ Last(stdout) = ConsoleArg(call.msg, level, call.date)
                 /\ chalkLevel > 0 =>
                       /\ StartsWith(Last(stdout), levels[level].open)
                       /\ EndsWith(Last(stdout), levels[level].close)

\* an info call has written its line at information level, in colour
C12_Witness ==
    /\ call.op = "info"
    /\ WroteOneLine
    /\ chalkLevel > 0
    /\ StartsWith(Last(stdout), levels[informationLevel].open)
    /\ Contains(Last(stdout), <<"[">> \o SeverityName["info"] \o <<"]">>)

\* the calls that are to log: the five methods, and getEnv of a key whose
\* value is missing; and the line each is to write
IsLoggingCall(c) ==
    \/ c.op \in DOMAIN MethodLevel
    \/ c.op = "log"
    \/ c.op = "getEnv" /\ Falsy(env[c.key])

LineOf(c) ==
    IF c.op = "getEnv"
    THEN LogLine(MissingKeyMessage(c.key), errorLevel, c.date, locale, hostLocale, chalkLevel)
    ELSE IF c.op = "log"
    THEN ConsoleArg(c.msg, c.level, c.date)
    ELSE LogLine(c.msg, MethodLevel[c.op], c.date, locale, hostLocale, chalkLevel)

\* C13: every call is complete when it returns, so standard output is the
\* sequence of the logging calls' lines in call order: each logging call
\* appends exactly its one line to what was there, and a call that does not
\* log leaves standard output as it was.
C13_LinesInCallOrder ==
    [][IF IsLoggingCall(call')
       THEN stdout' = Append(stdout, LineOf(call'))
       ELSE stdout' = stdout]_vars

\* What does hold of C13: standard output only grows, by at most one line per
\* call, lines once written are never changed, and a call that returns after
\* logging has appended its line.
C13_AppendOnly ==
    [][/\ Len(stdout') \in {Len(stdout), Len(stdout) + 1}
       /\ SubSeq(stdout', 1, Len(stdout)) = stdout
       /\ (IsLoggingCall(call') /\ ret'.kind = "return") =>
             Len(stdout') = Len(stdout) + 1
       /\ ~IsLoggingCall(call') => stdout' = stdout]_vars

\* C17: the value setOrGetNodeEnv returns, and the NODE_ENV it leaves in the
\* environment, is one of development, testing, production, whatever NODE_ENV
\* held at process start and whatever calls came before; after a call
\* NODE_ENV is defined.
C17_AlwaysAMode ==
    call.op = "setOrGetNodeEnv" =>
        /\ env[NODE_ENV].def
        /\ env[NODE_ENV].s \in NodeEnv
        /\ ret.kind = "return"
        /\ ret.val.def
        /\ ret.val.s \in NodeEnv

\* What does hold of C17: after a call NODE_ENV is defined and is the value
\* returned, and it is one of the three modes when the call supplied one, or
\* NODE_ENV was unset or already one of them.
C17_HoldsUnlessPresetOtherwise ==
    call.op = "setOrGetNodeEnv" =>
        /\ env[NODE_ENV].def
        /\ ret = Return(env[NODE_ENV])
        /\ (\/ call.arg.def
            \/ ~call.nodeEnvBefore.def
            \/ call.nodeEnvBefore.s \in NodeEnv) => ret.val.s \in NodeEnv

\* the wrapper calls made for request r
CallsOf(r) == {k \in DOMAIN provider : provider[k].req = r}

\* the wrapper operation each content endpoint is to call
OperationOf(route) ==
    IF route = "/joker" THEN "createAJoke"
    ELSE IF route = "/fact" THEN "findAFact"
    ELSE IF route = "/advice" THEN "sendSomeRandomAdvice"
    ELSE IF route = "/motivator" THEN "movingMotivation"
    ELSE IF route = "/quoteSomeone" THEN "quoter"
    ELSE "none"

\* C14: each of the five content endpoints makes exactly one call of the API
\* wrapper operation of its own content type, sends its response only after
\* that call has completed, and sends as body exactly the text that call
\* returned, under any interleaving of concurrent requests.
C14_OneCallOwnText ==
    \A r \in RequestIds :
        (requests[r].state # "none" /\ requests[r].route # "/") =>
            /\ Cardinality(CallsOf(r)) = 1
            /\ \A k \in CallsOf(r) :
                  /\ provider[k].op = OperationOf(requests[r].route)
                  /\ requests[r].state = "done" => provider[k].state # "pending"
                  /\ (requests[r].state = "done" /\ requests[r].status = 200) =>
                        /\ provider[k].state = "returned"
                        /\ requests[r].body = provider[k].text

\* two requests are answered, each with its own call's text, the two texts
\* differing, and the later request's call returned first
C14_Witness ==
    /\ MaxRequests >= 2
    /\ requests[1].state = "done" /\ requests[1].status = 200
    /\ requests[2].state = "done" /\ requests[2].status = 200
    /\ requests[1].route = "/joker"
    /\ requests[2].route = "/quoteSomeone"
    /\ requests[1].body # requests[2].body
    /\ requests[1].body = provider[requests[1].awaiting].text

\* the wrapper call made for request r has failed
CallFailed(r) == \E k \in CallsOf(r) : provider[k].state = "failed"

\* request r has received an error response
ErrorSent(r) == requests[r].state = "done" /\ requests[r].status = 500

Missing(key) == Falsy(env[key])

\* the line getEnv writes for a missing key, and the startup line
MissingLine(key) ==
    LogLine(MissingKeyMessage(key), errorLevel, DocDate, locale, hostLocale, chalkLevel)

StartupLine ==
    LogLine(StartupMessage(boot.nodeEnv, boot.port), informationLevel, DocDate,
            locale, hostLocale, chalkLevel)

\* the error lines the two reads are to have written once both are done
ErrorLines ==
    (IF Missing(EXPRESS_PORT) THEN <<MissingLine(EXPRESS_PORT)>> ELSE <<>>)
        \o (IF Missing(OPENAI_API_KEY) THEN <<MissingLine(OPENAI_API_KEY)>> ELSE <<>>)

\* the startup consts hold what was read
Captured ==
    /\ Len(boot.reads) >= 1 => (boot.nodeEnv = env[NODE_ENV] /\ boot.nodeEnv.def)
    /\ Len(boot.reads) >= 2 =>
          boot.port = IF Missing(EXPRESS_PORT) THEN Undefined ELSE env[EXPRESS_PORT]
    /\ Len(boot.reads) >= 3 =>
          boot.apiKey = IF Missing(OPENAI_API_KEY) THEN Undefined ELSE env[OPENAI_API_KEY]

C16_HoldsOnceListenEnded ==
    pc # "off" =>
        /\ boot.reads = SubSeq(<<NODE_ENV, EXPRESS_PORT, OPENAI_API_KEY>>, 1, Len(boot.reads))
        /\ Captured
        /\ Len(boot.reads) <= 1 => stdout = <<>>
        /\ Len(boot.reads) = 2 =>
              stdout = IF Missing(EXPRESS_PORT) THEN <<MissingLine(EXPRESS_PORT)>> ELSE <<>>
        /\ Len(boot.reads) = 3 =>
              \/ stdout = ErrorLines /\ server \in {"none", "binding"}
              \/ /\ stdout = Append(ErrorLines, StartupLine)
                 /\ server \in {"listening", "failed"}

====
